---- MODULE Spec2Model ----
(***************************************************************************)
(* Model of src/corrected_code.py: an in-memory inventory store            *)
(* (stock_data, an insertion-ordered dict from item name to quantity)      *)
(* with add_item / remove_item / get_qty / check_low_items / print_data /  *)
(* save_data / load_data.                                                  *)
(***************************************************************************)
EXTENDS Integers, Sequences, FiniteSets, TLC

VARIABLES
    stock,   \* stock_data: sequence of entries [k, v] in dict iteration order
    file,    \* what is at the inventory path: [kind, data]
    sink,    \* the caller's `logs` list as it stands after the last call
    last,    \* the last call: its arguments, exception, return value, log output
    hist     \* per item: sums of successful adds/removes and lowest running net

vars == <<stock, file, sink, last, hist>>

-----------------------------------------------------------------------------
(* Bounds of the model *)

MaxQty == 2
MaxStock == 2
MaxSum == 3

\* default threshold of check_low_items
DefaultThreshold == 5

Items == {"apple", "banana"}

\* item arguments: valid names, the empty string, and a non-str object
StrArg(s) == [t |-> "str", v |-> s]
ItemArgs == {StrArg(s) : s \in Items \cup {""}} \cup {[t |-> "NoneType", v |-> ""]}

\* qty / threshold arguments: ints, a bool (an int subclass), a float
IntArg(n) == [t |-> "int", v |-> n]
QtyArgs == {IntArg(n) : n \in -1..MaxQty}
             \cup {[t |-> "bool", v |-> 1], [t |-> "float", v |-> 1]}

\* the str and int arguments among them
StrItems == {a \in ItemArgs : a.t = "str"}
IntQtys == {a \in QtyArgs : a.t = "int"}

-----------------------------------------------------------------------------
(* Python dict operations on the entry sequence *)

Keys(d) == [i \in 1..Len(d) |-> d[i].k]

Has(d, key) == \E i \in 1..Len(d) : d[i].k = key

\* dict.get(key, default)
DictGet(d, key, default) ==
    IF Has(d, key) THEN d[CHOOSE i \in 1..Len(d) : d[i].k = key].v ELSE default

\* d[key] = val : an existing key keeps its position, a new key goes last
DictSet(d, key, val) ==
    IF Has(d, key)
    THEN [i \in 1..Len(d) |-> IF d[i].k = key THEN [k |-> key, v |-> val] ELSE d[i]]
    ELSE Append(d, [k |-> key, v |-> val])

\* del d[key]
DictDel(d, key) == SelectSeq(d, LAMBDA e : e.k # key)

\* d.update(src)
RECURSIVE DictUpdate(_, _)
DictUpdate(d, src) ==
    IF src = <<>> THEN d
    ELSE DictUpdate(DictSet(d, Head(src).k, Head(src).v), Tail(src))

-----------------------------------------------------------------------------
(* isinstance checks of the argument validation *)

IsStr(a) == a.t = "str"
IsInt(a) == a.t \in {"int", "bool"}

NoArg == [t |-> "NoneType", v |-> 0]
NoItem == [t |-> "NoneType", v |-> ""]

\* record of a call on store d: arguments, then outcome
Call(op, d) ==
    [op |-> op, item |-> NoItem, qty |-> NoArg, fault |-> "none",
     given |-> FALSE, before |-> <<>>, prior |-> Len(d),
     exc |-> "none", ret |-> 0, names |-> <<>>, lines |-> <<>>, logs |-> <<>>]

-----------------------------------------------------------------------------
(* add_item(item, qty, logs) *)

add_item(d, item, qty, logs) ==
    IF ~IsStr(item) \/ item.v = ""
    THEN [stock |-> d, logs |-> logs, exc |-> "TypeError", out |-> <<>>]
    ELSE IF ~IsInt(qty)
    THEN [stock |-> d, logs |-> logs, exc |-> "TypeError", out |-> <<>>]
    ELSE IF qty.v < 0
    THEN [stock |-> d, logs |-> logs, exc |-> "ValueError", out |-> <<>>]
    ELSE [stock |-> DictSet(d, item.v, DictGet(d, item.v, 0) + qty.v),
          logs |-> Append(logs, [verb |-> "Added", qty |-> qty.v, item |-> item.v]),
          exc |-> "none", out |-> <<"INFO">>]

-----------------------------------------------------------------------------
(* remove_item(item, qty) *)

\* variant: the depleted entry is written back instead of deleted
remove_item_no_delete(d, item, qty) ==
    IF ~IsStr(item) \/ item.v = ""
    THEN [stock |-> d, exc |-> "TypeError", out |-> <<>>]
    ELSE IF ~IsInt(qty)
    THEN [stock |-> d, exc |-> "TypeError", out |-> <<>>]
    ELSE IF qty.v <= 0
    THEN [stock |-> d, exc |-> "ValueError", out |-> <<>>]
    ELSE IF ~Has(d, item.v)
    THEN [stock |-> d, exc |-> "KeyError", out |-> <<>>]
    ELSE [stock |-> DictSet(d, item.v, DictGet(d, item.v, 0) - qty.v),
          exc |-> "none", out |-> <<"INFO">>]

\* variant: `remaining >= 0` keeps an entry of quantity 0
remove_item_keep_zero(d, item, qty) ==
    IF ~IsStr(item) \/ item.v = ""
    THEN [stock |-> d, exc |-> "TypeError", out |-> <<>>]
    ELSE IF ~IsInt(qty)
    THEN [stock |-> d, exc |-> "TypeError", out |-> <<>>]
    ELSE IF qty.v <= 0
    THEN [stock |-> d, exc |-> "ValueError", out |-> <<>>]
    ELSE IF ~Has(d, item.v)
    THEN [stock |-> d, exc |-> "KeyError", out |-> <<>>]
    ELSE LET remaining == DictGet(d, item.v, 0) - qty.v IN
         IF remaining >= 0
         THEN [stock |-> DictSet(d, item.v, remaining), exc |-> "none",
               out |-> <<"INFO">>]
         ELSE [stock |-> DictDel(d, item.v), exc |-> "none",
               out |-> <<"INFO">>]

\* variant: the lookup comes before the check of qty
remove_item_lookup_first(d, item, qty) ==
    IF ~IsStr(item) \/ item.v = ""
    THEN [stock |-> d, exc |-> "TypeError", out |-> <<>>]
    ELSE IF ~Has(d, item.v)
    THEN [stock |-> d, exc |-> "KeyError", out |-> <<>>]
    ELSE IF ~IsInt(qty)
    THEN [stock |-> d, exc |-> "TypeError", out |-> <<>>]
    ELSE IF qty.v <= 0
    THEN [stock |-> d, exc |-> "ValueError", out |-> <<>>]
    ELSE LET remaining == DictGet(d, item.v, 0) - qty.v IN
         IF remaining > 0
         THEN [stock |-> DictSet(d, item.v, remaining), exc |-> "none",
               out |-> <<"INFO">>]
         ELSE [stock |-> DictDel(d, item.v), exc |-> "none",
               out |-> <<"INFO">>]

remove_item(d, item, qty) ==
    IF ~IsStr(item) \/ item.v = ""
    THEN [stock |-> d, exc |-> "TypeError", out |-> <<>>]
    ELSE IF ~IsInt(qty)
    THEN [stock |-> d, exc |-> "TypeError", out |-> <<>>]
    ELSE IF qty.v <= 0
    THEN [stock |-> d, exc |-> "ValueError", out |-> <<>>]
    ELSE IF ~Has(d, item.v)
    THEN [stock |-> d, exc |-> "KeyError", out |-> <<>>]
    ELSE LET remaining == DictGet(d, item.v, 0) - qty.v IN
         IF remaining > 0
         THEN [stock |-> DictSet(d, item.v, remaining), exc |-> "none",
               out |-> <<"INFO">>]
         ELSE [stock |-> DictDel(d, item.v), exc |-> "none",
               out |-> <<"INFO">>]

-----------------------------------------------------------------------------
(* get_qty(item) *)

get_qty(d, item) ==
    IF ~IsStr(item) \/ item.v = ""
    THEN [exc |-> "TypeError", ret |-> 0]
    ELSE [exc |-> "none", ret |-> DictGet(d, item.v, 0)]

-----------------------------------------------------------------------------
(* check_low_items(threshold): the list comprehension walks the entries *)

RECURSIVE LowNames(_, _)
LowNames(d, th) ==
    IF d = <<>> THEN <<>>
    ELSE IF Head(d).v < th THEN <<Head(d).k>> \o LowNames(Tail(d), th)
    ELSE LowNames(Tail(d), th)

\* variant: `qty <= threshold`
check_low_items_le(d, threshold) ==
    IF ~IsInt(threshold)
    THEN [exc |-> "TypeError", ret |-> <<>>]
    ELSE [exc |-> "none",
          ret |-> Keys(SelectSeq(d, LAMBDA e : e.v <= threshold.v))]

check_low_items(d, threshold) ==
    IF ~IsInt(threshold)
    THEN [exc |-> "TypeError", ret |-> <<>>]
    ELSE [exc |-> "none", ret |-> LowNames(d, threshold.v)]

-----------------------------------------------------------------------------
(* print_data(): a header line, then one line per entry *)

RECURSIVE ReportLines(_)
ReportLines(d) ==
    IF d = <<>> THEN <<>>
    ELSE <<[name |-> Head(d).k, qty |-> Head(d).v]>> \o ReportLines(Tail(d))

print_data(d) ==
    [lines |-> ReportLines(d), out |-> [i \in 1..(Len(d) + 1) |-> "INFO"]]

-----------------------------------------------------------------------------
(* Text of JSON number tokens and of str values, as sequences of characters *)

DigitChars == <<"0", "1", "2", "3", "4", "5", "6", "7", "8", "9">>

IsDigit(c) == \E i \in 1..10 : DigitChars[i] = c

DigitVal(c) == (CHOOSE i \in 1..10 : DigitChars[i] = c) - 1

RECURSIVE NatToStr(_)
NatToStr(n) ==
    IF n < 10 THEN <<DigitChars[n + 1]>>
    ELSE NatToStr(n \div 10) \o <<DigitChars[(n % 10) + 1]>>

\* the decimal text json.dump writes for an int
IntToStr(n) == IF n < 0 THEN <<"-">> \o NatToStr(-n) ELSE NatToStr(n)

RECURSIVE DigitsVal(_, _)
DigitsVal(s, acc) ==
    IF s = <<>> THEN acc
    ELSE DigitsVal(Tail(s), 10 * acc + DigitVal(Head(s)))

AllDigits(s) == s # <<>> /\ \A i \in 1..Len(s) : IsDigit(s[i])

RECURSIVE LStrip(_)
LStrip(s) == IF s # <<>> /\ Head(s) = " " THEN LStrip(Tail(s)) ELSE s

RECURSIVE RStrip(_)
RStrip(s) ==
    IF s # <<>> /\ s[Len(s)] = " " THEN RStrip(SubSeq(s, 1, Len(s) - 1)) ELSE s

\* int(str): surrounding whitespace, an optional sign, then decimal digits
IntOfStr(s) ==
    LET body == RStrip(LStrip(s))
        signed == body # <<>> /\ Head(body) \in {"-", "+"}
        digits == IF signed THEN Tail(body) ELSE body
    IN  IF AllDigits(digits)
        THEN [ok |-> TRUE,
              n |-> IF signed /\ Head(body) = "-"
                    THEN -DigitsVal(digits, 0) ELSE DigitsVal(digits, 0)]
        ELSE [ok |-> FALSE, n |-> 0]

-----------------------------------------------------------------------------
(* JSON values of the file (tokens) and the Python values json.load yields *)

Tok(t, n, s) == [t |-> t, n |-> n, s |-> s]

\* json.dump(stock_data, f, indent=2): one member per entry, in dict order
JsonDump(d) ==
    [i \in 1..Len(d) |-> [k |-> d[i].k, v |-> Tok("int", 0, IntToStr(d[i].v))]]

\* json.load of one member value
JsonValue(tok) ==
    CASE tok.t = "int"   -> Tok("int", IntOfStr(tok.s).n, <<>>)
      [] tok.t = "float" -> Tok("float", tok.n, <<>>)
      [] tok.t = "inf"   -> Tok("inf", 0, <<>>)
      [] tok.t = "str"   -> Tok("str", 0, tok.s)
      [] tok.t = "null"  -> Tok("NoneType", 0, <<>>)

\* json.load of an object: a dict, so a repeated name keeps its last value
RECURSIVE JsonObject(_, _)
JsonObject(data, acc) ==
    IF data = <<>> THEN acc
    ELSE JsonObject(Tail(data), DictSet(acc, Head(data).k, JsonValue(Head(data).v)))

JsonLoad(data) == JsonObject(data, <<>>)

\* int(v); floats are held in tenths and truncate toward zero
PyInt(v) ==
    CASE v.t = "int"      -> [exc |-> "none", n |-> v.n]
      [] v.t = "float"    -> [exc |-> "none",
                              n |-> IF v.n >= 0 THEN v.n \div 10 ELSE -((-v.n) \div 10)]
      [] v.t = "inf"      -> [exc |-> "OverflowError", n |-> 0]
      [] v.t = "str"      -> IF IntOfStr(v.s).ok
                             THEN [exc |-> "none", n |-> IntOfStr(v.s).n]
                             ELSE [exc |-> "ValueError", n |-> 0]
      [] v.t = "NoneType" -> [exc |-> "TypeError", n |-> 0]

-----------------------------------------------------------------------------
(* load_data(file) *)

\* variant: the loop is left after its first item
Normalize_first(items, normalized, out) ==
    IF items = <<>> THEN [exc |-> "none", normalized |-> normalized, out |-> out]
    ELSE LET c == PyInt(Head(items).v) IN
         IF c.exc = "none"
         THEN [exc |-> "none",
               normalized |-> DictSet(normalized, Head(items).k, c.n), out |-> out]
         ELSE IF c.exc \in {"TypeError", "ValueError"}
         THEN [exc |-> "none", normalized |-> normalized,
               out |-> Append(out, "WARNING")]
         ELSE [exc |-> c.exc, normalized |-> normalized, out |-> out]

\* the loop over data.items(): builds `normalized`, warns on TypeError and
\* ValueError, and is left by any other exception of int(v)
RECURSIVE Normalize(_, _, _)
Normalize(items, normalized, out) ==
    IF items = <<>> THEN [exc |-> "none", normalized |-> normalized, out |-> out]
    ELSE LET c == PyInt(Head(items).v) IN
         IF c.exc = "none"
         THEN Normalize(Tail(items), DictSet(normalized, Head(items).k, c.n), out)
         ELSE IF c.exc \in {"TypeError", "ValueError"}
         THEN Normalize(Tail(items), normalized, Append(out, "WARNING"))
         ELSE [exc |-> c.exc, normalized |-> normalized, out |-> out]

\* variant: stock_data.clear() runs before the file is parsed
load_data_clear_first(d, f, denied) ==
    IF f.kind = "absent"
    THEN [stock |-> <<>>, exc |-> "none", out |-> <<"WARNING">>]
    ELSE IF denied
    THEN [stock |-> d, exc |-> "OSError", out |-> <<>>]
    ELSE IF f.kind = "binary"
    THEN [stock |-> d, exc |-> "UnicodeDecodeError", out |-> <<>>]
    ELSE IF f.kind = "garbage"
    THEN [stock |-> <<>>, exc |-> "JSONDecodeError", out |-> <<"ERROR">>]
    ELSE IF f.kind # "object"
    THEN [stock |-> <<>>, exc |-> "ValueError", out |-> <<>>]
    ELSE LET r == Normalize(JsonLoad(f.data), <<>>, <<>>) IN
         IF r.exc # "none"
         THEN [stock |-> <<>>, exc |-> r.exc, out |-> r.out]
         ELSE [stock |-> DictUpdate(<<>>, r.normalized), exc |-> "none",
               out |-> Append(r.out, "INFO")]

\* variant: the FileNotFoundError handler only warns
load_data_keep(d, f, denied) ==
    IF f.kind = "absent"
    THEN [stock |-> d, exc |-> "none", out |-> <<"WARNING">>]
    ELSE IF denied
    THEN [stock |-> d, exc |-> "OSError", out |-> <<>>]
    ELSE IF f.kind = "binary"
    THEN [stock |-> d, exc |-> "UnicodeDecodeError", out |-> <<>>]
    ELSE IF f.kind = "garbage"
    THEN [stock |-> d, exc |-> "JSONDecodeError", out |-> <<"ERROR">>]
    ELSE IF f.kind # "object"
    THEN [stock |-> d, exc |-> "ValueError", out |-> <<>>]
    ELSE LET r == Normalize(JsonLoad(f.data), <<>>, <<>>) IN
         IF r.exc # "none"
         THEN [stock |-> d, exc |-> r.exc, out |-> r.out]
         ELSE [stock |-> DictUpdate(<<>>, r.normalized), exc |-> "none",
               out |-> Append(r.out, "INFO")]

load_data(d, f, denied) ==
    IF f.kind = "absent"
    THEN [stock |-> <<>>, exc |-> "none", out |-> <<"WARNING">>]
    ELSE IF denied
    THEN [stock |-> d, exc |-> "OSError", out |-> <<>>]
    ELSE IF f.kind = "binary"
    THEN [stock |-> d, exc |-> "UnicodeDecodeError", out |-> <<>>]
    ELSE IF f.kind = "garbage"
    THEN [stock |-> d, exc |-> "JSONDecodeError", out |-> <<"ERROR">>]
    ELSE IF f.kind # "object"
    THEN [stock |-> d, exc |-> "ValueError", out |-> <<>>]
    ELSE LET r == Normalize(JsonLoad(f.data), <<>>, <<>>) IN
         IF r.exc # "none"
         THEN [stock |-> d, exc |-> r.exc, out |-> r.out]
         ELSE [stock |-> DictUpdate(<<>>, r.normalized), exc |-> "none",
               out |-> Append(r.out, "INFO")]

-----------------------------------------------------------------------------
(* save_data(file) *)

\* the file: missing, text that is not JSON, bytes that are not UTF-8,
\* a JSON text that is not an object, or a JSON object
Absent == [kind |-> "absent", data |-> <<>>]
Garbage == [kind |-> "garbage", data |-> <<>>]
Binary == [kind |-> "binary", data |-> <<>>]
Array == [kind |-> "array", data |-> <<>>]
Object(data) == [kind |-> "object", data |-> data]

\* fault: "none", "open" (open() raises OSError) or "write" (the write raises
\* OSError after open() has truncated the file)
save_data(d, f, fault) ==
    IF fault = "open"
    THEN [file |-> f, exc |-> "OSError", out |-> <<"ERROR">>]
    ELSE IF fault = "write"
    THEN [file |-> Garbage, exc |-> "OSError", out |-> <<"ERROR">>]
    ELSE [file |-> Object(JsonDump(d)), exc |-> "none", out |-> <<"INFO">>]

-----------------------------------------------------------------------------
(* What another program may have left at the inventory path *)

ExtValues ==
    {Tok("int", 0, <<"2">>), Tok("int", 0, <<"0">>), Tok("int", 0, <<"-", "1">>),
     Tok("float", 27, <<>>), Tok("inf", 0, <<>>), Tok("null", 0, <<>>),
     Tok("str", 0, <<"x">>), Tok("str", 0, <<" ", "2">>)}

PairValues == {Tok("int", 0, <<"2">>), Tok("str", 0, <<"x">>)}

ExternalFiles ==
    {Absent, Garbage, Binary, Array}
      \cup {Object(<<[k |-> "apple", v |-> t]>>) : t \in ExtValues}
      \cup {Object(<<[k |-> p[1], v |-> t], [k |-> p[2], v |-> u]>>) :
              p \in {q \in Items \X Items : q[1] # q[2]},
              t \in PairValues, u \in PairValues}
      \cup {Object(<<[k |-> "banana", v |-> Tok("int", 0, <<"1">>)],
                     [k |-> "apple", v |-> Tok("inf", 0, <<>>)]>>),
            Object(<<[k |-> "apple", v |-> Tok("int", 0, <<"1">>)],
                     [k |-> "apple", v |-> Tok("str", 0, <<"x">>)]>>)}

\* lists a caller may pass as `logs`
SinkLists == {<<>>, <<[verb |-> "Added", qty |-> 1, item |-> "apple"]>>}

ZeroHist == [i \in Items |-> [added |-> 0, removed |-> 0, low |-> 0]]

-----------------------------------------------------------------------------------------------------------------------------------------------------
(* Initial state: the module has just been imported *)

Init ==
    /\ stock = <<>>
    /\ file = Absent
    /\ sink = <<>>
    /\ last = Call("import", <<>>)
    /\ hist = ZeroHist

-----------------------------------------------------------------------------
(* Calls *)

Capped(d) == \A i \in 1..Len(d) : d[i].v <= MaxStock

AddCall(item, qty, given, before) ==
    LET r == add_item(stock, item, qty, IF given THEN before ELSE <<>>) IN
    /\ Capped(r.stock)
    /\ stock' = r.stock
    /\ sink' = IF given THEN r.logs ELSE <<>>
    /\ last' = [Call("add", stock) EXCEPT !.item = item, !.qty = qty,
                    !.given = given, !.before = before,
                    !.exc = r.exc, !.logs = r.out]
    /\ UNCHANGED file

RemoveCall(item, qty) ==
    LET r == remove_item(stock, item, qty) IN
    /\ stock' = r.stock
    /\ sink' = <<>>
    /\ last' = [Call("remove", stock) EXCEPT !.item = item, !.qty = qty,
                    !.exc = r.exc, !.logs = r.out]
    /\ UNCHANGED file

GetCall(item) ==
    LET r == get_qty(stock, item) IN
    /\ sink' = <<>>
    /\ last' = [Call("get", stock) EXCEPT !.item = item,
                    !.exc = r.exc, !.ret = r.ret]
    /\ UNCHANGED <<stock, file>>

LowCall(threshold) ==
    LET r == check_low_items(stock, threshold) IN
    /\ sink' = <<>>
    /\ last' = [Call("low", stock) EXCEPT !.qty = threshold,
                    !.exc = r.exc, !.names = r.ret]
    /\ UNCHANGED <<stock, file>>

AddItem ==
    \E item \in StrItems, qty \in IntQtys :
        /\ AddCall(item, qty, FALSE, <<>>)
        /\ UNCHANGED hist

RemoveItem ==
    \E item \in StrItems, qty \in IntQtys :
        /\ RemoveCall(item, qty)
        /\ UNCHANGED hist

GetQty ==
    \E item \in StrItems :
        /\ GetCall(item)
        /\ UNCHANGED hist

CheckLowItems ==
    \E threshold \in IntQtys \cup {IntArg(DefaultThreshold)} :
        /\ LowCall(threshold)
        /\ UNCHANGED hist

PrintData ==
    LET r == print_data(stock) IN
    /\ sink' = <<>>
    /\ last' = [Call("report", stock) EXCEPT !.lines = r.lines, !.logs = r.out]
    /\ UNCHANGED <<stock, file, hist>>

SaveData ==
    \E fault \in {"none", "open", "write"} :
        LET r == save_data(stock, file, fault) IN
        /\ file' = r.file
        /\ sink' = <<>>
        /\ last' = [Call("save", stock) EXCEPT !.fault = fault,
                        !.exc = r.exc, !.logs = r.out]
        /\ UNCHANGED <<stock, hist>>

LoadData ==
    \E denied \in BOOLEAN :
        LET r == load_data(stock, file, denied) IN
        /\ stock' = r.stock
        /\ sink' = <<>>
        /\ last' = [Call("load", stock) EXCEPT
                        !.fault = IF denied THEN "open" ELSE "none",
                        !.exc = r.exc, !.logs = r.out]
        /\ UNCHANGED <<file, hist>>

\* the environment replaces the file between two calls
WriteFile ==
    \E f \in ExternalFiles :
        /\ file' = f
        /\ sink' = <<>>
        /\ last' = Call("write", stock)
        /\ UNCHANGED <<stock, hist>>

Next ==
    \/ AddItem
    \/ RemoveItem
    \/ GetQty
    \/ CheckLowItems
    \/ PrintData
    \/ SaveData
    \/ LoadData
    \/ WriteFile

Spec == Init /\ [][Next]_vars

-----------------------------------------------------------------------------
(* add/remove sequences from the empty store, with the sums of the          *)
(* successful calls kept per item                                           *)

Min(a, b) == IF a < b THEN a ELSE b

Tracked(h, item, qty, exc, add) ==
    IF exc # "none" THEN h
    ELSE LET o == h[item.v]
             a == IF add THEN o.added + qty.v ELSE o.added
             r == IF add THEN o.removed ELSE o.removed + qty.v
         IN  [h EXCEPT ![item.v] =
                 [added |-> a, removed |-> r, low |-> Min(o.low, a - r)]]

InSums(h) == \A i \in Items : h[i].added <= MaxSum /\ h[i].removed <= MaxSum

AddItemH ==
    \E item \in StrItems, qty \in IntQtys :
        /\ AddCall(item, qty, FALSE, <<>>)
        /\ hist' = Tracked(hist, item, qty, last'.exc, TRUE)
        /\ InSums(hist')

RemoveItemH ==
    \E item \in StrItems, qty \in IntQtys :
        /\ RemoveCall(item, qty)
        /\ hist' = Tracked(hist, item, qty, last'.exc, FALSE)
        /\ InSums(hist')

GetQtyH ==
    \E item \in StrItems :
        /\ GetCall(item)
        /\ UNCHANGED hist

NextAR ==
    \/ AddItemH
    \/ RemoveItemH
    \/ GetQtyH

SpecAR == Init /\ [][NextAR]_vars

-----------------------------------------------------------------------------
(* The calls with arguments of every type, and with a caller's `logs` list   *)

AddItemAny ==
    \E item \in ItemArgs, qty \in QtyArgs, given \in BOOLEAN, before \in SinkLists :
        /\ AddCall(item, qty, given, before)
        /\ UNCHANGED hist

RemoveItemAny ==
    \E item \in ItemArgs, qty \in QtyArgs :
        /\ RemoveCall(item, qty)
        /\ UNCHANGED hist

GetQtyAny ==
    \E item \in ItemArgs :
        /\ GetCall(item)
        /\ UNCHANGED hist

CheckLowItemsAny ==
    \E threshold \in QtyArgs :
        /\ LowCall(threshold)
        /\ UNCHANGED hist

NextArgs ==
    \/ AddItemAny
    \/ RemoveItemAny
    \/ GetQtyAny
    \/ CheckLowItemsAny

SpecArgs == Init /\ [][NextArgs]_vars

-----------------------------------------------------------------------------
(* Properties *)

Range(q) == {q[i] : i \in 1..Len(q)}

KeySet(d) == {d[i].k : i \in 1..Len(d)}

Pos(d, key) == CHOOSE i \in 1..Len(d) : d[i].k = key

InvalidArgument == {"TypeError", "ValueError"}

Thresholds == IntQtys \cup {IntArg(DefaultThreshold)}

\* C1: every key present in the inventory has a stored quantity > 0.
C1_AllPositive == \A i \in 1..Len(stock) : stock[i].v > 0

\* C2 as stated: after any sequence of successful add/remove calls from the
\* empty store, quantity(item) is the sum of the adds minus the sum of the
\* removes, and is not negative.
C2_SumOfAddsMinusRemoves ==
    \A i \in Items :
        /\ get_qty(stock, StrArg(i)).ret = hist[i].added - hist[i].removed
        /\ get_qty(stock, StrArg(i)).ret >= 0

\* C2 amended: quantity(item) is the sum of the adds minus the sum of the
\* removes, less the lowest value that running difference has reached (0 when
\* no remove exceeded the stock available to it); it is never negative, and a
\* remove of more than the available stock deletes the item so that the next
\* quantity(item) is 0.
C2_ClampedSum ==
    [][ /\ \A i \in Items :
              LET q == get_qty(stock', StrArg(i)).ret IN
              /\ q = hist'[i].added - hist'[i].removed - hist'[i].low
              /\ q >= 0
              /\ hist'[i].low = 0 => q = hist'[i].added - hist'[i].removed
        /\ (/\ last'.op = "remove"
            /\ last'.exc = "none"
            /\ last'.qty.v > get_qty(stock, last'.item).ret)
           => /\ ~Has(stock', last'.item.v)
              /\ get_qty(stock', last'.item).ret = 0 ]_vars

\* an item was removed beyond its stock and has been added again since
C2_Witness ==
    \E i \in Items : hist[i].low < 0 /\ get_qty(stock, StrArg(i)).ret > 0

C4_SaveLoadRoundTrip ==
    [][ (/\ last.op = "save" /\ last.exc = "none"
         /\ last'.op = "load" /\ last'.fault = "none")
        => /\ last'.exc = "none"
           /\ KeySet(stock') = KeySet(stock)
           /\ \A key \in KeySet(stock) :
                  DictGet(stock', key, 0) = DictGet(stock, key, 0) ]_vars

\* a two-item store has been loaded back from the file save wrote for it
C4_Witness ==
    /\ last.op = "load"
    /\ last.exc = "none"
    /\ last.prior = 2
    /\ Len(stock) = 2
    /\ \A i \in 1..Len(stock) : stock[i].v = 1
    /\ file = Object(JsonDump(stock))

\* C5: every I/O failure of save or load is logged at ERROR level before it
\* propagates.
C5_IOFailureLogged ==
    last.exc = "OSError" => (last.logs # <<>> /\ last.logs[Len(last.logs)] = "ERROR")

Coercible(tok) == PyInt(JsonValue(tok)).exc = "none"

\* the value json.load keeps for a member name: that of its last occurrence
Member(data, key) ==
    data[CHOOSE i \in 1..Len(data) :
            /\ data[i].k = key
            /\ \A j \in 1..Len(data) : data[j].k = key => j <= i].v

\* C6: load of a file holding a JSON object never fails because of a value;
\* it stores exactly the entries whose value int() accepts, warns once for
\* each other entry, and keeps no prior entry.
C6_LoadNeverFailsOnValue ==
    (last.op = "load" /\ last.fault = "none" /\ file.kind = "object")
    => /\ last.exc = "none"
       /\ KeySet(stock) = {key \in KeySet(file.data) :
                             Coercible(Member(file.data, key))}
       /\ \A key \in KeySet(stock) :
              DictGet(stock, key, 0) = PyInt(JsonValue(Member(file.data, key))).n
       /\ Cardinality({i \in 1..Len(last.logs) : last.logs[i] = "WARNING"})
            = Cardinality({key \in KeySet(file.data) :
                             ~Coercible(Member(file.data, key))})

\* C7: lowStock(threshold) returns exactly the items stored with a quantity
\* < threshold, each once, in the order of their entries, and does not change
\* the store.
C7_LowStockExact ==
    [][ (last'.op = "low" /\ last'.exc = "none")
        => LET r == last'.names
               th == last'.qty.v
           IN  /\ stock' = stock
               /\ \A i \in 1..Len(r) :
                      Has(stock, r[i]) /\ DictGet(stock, r[i], 0) < th
               /\ \A e \in 1..Len(stock) :
                      stock[e].v < th => stock[e].k \in Range(r)
               /\ \A i, j \in 1..Len(r) :
                      i < j => (r[i] # r[j] /\ Pos(stock, r[i]) < Pos(stock, r[j])) ]_vars

\* of two stored items, lowStock returned one and left the other out
C7_Witness ==
    /\ last.op = "low"
    /\ last.exc = "none"
    /\ Len(stock) = 2
    /\ Len(last.names) = 1

\* C8: a successful remove stores s - qty when that is > 0 and deletes the
\* entry otherwise; a deleted item has quantity 0 and is in no lowStock result
\* and no report line; the other items are unchanged.
C8_RemoveStoresOrDeletes ==
    [][ (last'.op = "remove" /\ last'.exc = "none")
        => LET it == last'.item.v
               s == DictGet(stock, it, 0)
               q == last'.qty.v
           IN  /\ Has(stock, it)
               /\ IF s - q > 0
                  THEN Has(stock', it) /\ DictGet(stock', it, 0) = s - q
                  ELSE /\ ~Has(stock', it)
                       /\ get_qty(stock', last'.item).ret = 0
                       /\ \A th \in Thresholds :
                              it \notin Range(check_low_items(stock', th).ret)
                       /\ \A ln \in Range(print_data(stock').lines) : ln.name # it
               /\ \A o \in Items \ {it} :
                      /\ Has(stock', o) = Has(stock, o)
                      /\ DictGet(stock', o, 0) = DictGet(stock, o, 0) ]_vars

\* a remove has deleted one of two stored items
C8_Witness ==
    /\ last.op = "remove"
    /\ last.exc = "none"
    /\ last.prior = 2
    /\ Len(stock) = 1
    /\ ~Has(stock, last.item.v)

\* C9: load of a path where no file exists does not raise, logs a WARNING and
\* no ERROR, and leaves the store empty.
C9_MissingFileEmptiesStore ==
    [][ (last'.op = "load" /\ file.kind = "absent")
        => /\ last'.exc = "none"
           /\ last'.logs = <<"WARNING">>
           /\ stock' = <<>>
           /\ \A i \in Items : get_qty(stock', StrArg(i)).ret = 0 ]_vars

C9_Witness ==
    /\ last.op = "load"
    /\ file.kind = "absent"
    /\ last.prior = 2
    /\ stock = <<>>

\* C10: remove raises InvalidArgument for an empty item or a qty <= 0, also
\* when the item is absent, and NotFound for valid arguments and an absent
\* item; add raises InvalidArgument for an empty item or a negative qty; a
\* failing add or remove changes neither the inventory nor the caller's list.
C10_FailuresLeaveStateAlone ==
    [][ LET item == last'.item
            qty == last'.qty
            bad == \/ (IsStr(item) /\ item.v = "")
                   \/ (IsInt(qty) /\ qty.v <= 0)
            good == IsStr(item) /\ item.v # "" /\ IsInt(qty) /\ qty.v > 0
        IN  /\ (last'.op = "remove" /\ bad) => last'.exc \in InvalidArgument
            /\ (last'.op = "remove" /\ good /\ ~Has(stock, item.v))
                   => last'.exc = "KeyError"
            /\ (last'.op = "add" /\ ((IsStr(item) /\ item.v = "")
                                        \/ (IsInt(qty) /\ qty.v < 0)))
                   => last'.exc \in InvalidArgument
            /\ (last'.op \in {"add", "remove"} /\ last'.exc # "none")
                   => /\ stock' = stock
                      /\ last'.given => sink' = last'.before ]_vars

\* a remove of a non-positive qty of an absent item was refused for its qty
C10_Witness ==
    /\ last.op = "remove"
    /\ last.exc = "ValueError"
    /\ IsStr(last.item)
    /\ last.item.v \in Items
    /\ ~Has(stock, last.item.v)
    /\ Len(stock) = 1

====
